---- MODULE Spec2Model ----
(***************************************************************************)
(* Layout templates of ipywidgets (widgets/widget_templates.py):           *)
(* LayoutTemplate (style delegation), AppLayout (header / footer /         *)
(* sidebars / center) and TwoByTwoLayout (2x2 grid).                       *)
(*                                                                         *)
(* A container owns a Layout object.  Its position traits hold a Widget or *)
(* None; every change of a position trait runs _update_layout, which       *)
(* writes grid_template_rows / _columns / _areas on the Layout, grid_area  *)
(* on each present child's own Layout, and the container's children.       *)
(* Every change of any trait is also forwarded to the Layout by            *)
(* _delegate_to_layout.  Trait observers run only when the assigned value  *)
(* differs from the stored one.                                            *)
(*                                                                         *)
(* Python values: None is the string "None"; a widget is the string "w<i>";*)
(* a dict is the sequence of its <<key, value>> items in insertion order;  *)
(* CSS values are the very strings the code builds.  An attribute of the   *)
(* Layout that was never assigned reads as None.                           *)
(***************************************************************************)
EXTENDS Integers, Sequences, FiniteSets, TLC

\* Number of distinct widgets that may be assigned to the positions.
NumWidgets == 2

\* Number of distinct widgets used by the specification with style writes.
NumStyleWidgets == 1

None == "None"

Widget(i) == "w" \o ToString(i)

Widgets == {Widget(i) : i \in 1..NumWidgets}

StyleWidgets == {Widget(i) : i \in 1..NumStyleWidgets}

Classes == {"AppLayout", "TwoByTwoLayout"}

\* ---------------------------------------------------------------- traits

\* LayoutTemplate: traits tagged style=True.
StyleNames == {"grid_gap", "justify_content", "align_items", "width", "height"}

\* CaselessStrEnum values of justify_content.
JustifyContentValues ==
    {"flex-start", "flex-end", "center", "space-between", "space-around"}

\* CaselessStrEnum values of align_items.
AlignItemsValues ==
    {"flex-start", "flex-end", "center", "baseline", "stretch"}

\* The values written to a style trait besides None: sample strings for the
\* Unicode traits, a sample of the enumeration for the CaselessStrEnum traits.
StyleValues(name) ==
    CASE name = "grid_gap"        -> {"10px"}
      [] name = "justify_content" -> {v \in JustifyContentValues : v \in {"center", "flex-end"}}
      [] name = "align_items"     -> {v \in AlignItemsValues : v = "stretch"}
      [] name = "width"           -> {"50%"}
      [] name = "height"          -> {"300px"}

\* AppLayout: the position traits.
AppSlotNames == {"header", "footer", "left_sidebar", "right_sidebar", "center"}

\* TwoByTwoLayout: the position traits.
TwoByTwoSlotNames == {"top_left", "top_right", "bottom_left", "bottom_right"}

SlotNames(c) == IF c = "AppLayout" THEN AppSlotNames ELSE TwoByTwoSlotNames

\* Layout traits written by the templates.
GridNames == {"grid_template_columns", "grid_template_rows", "grid_template_areas"}

\* Every attribute of the owned Layout the templates may assign.
LayoutNames(c) == GridNames \cup StyleNames \cup {"merge", "children"} \cup SlotNames(c)

VARIABLES
    cls,        \* the container's class
    slots,      \* position trait name -> Widget or None
    merge,      \* the merge trait
    style,      \* style trait name -> value or None
    layout,     \* self.layout: attribute name -> value
    grid_area,  \* widget -> child.layout.grid_area
    children    \* self.children, a tuple of widgets

vars == <<cls, slots, merge, style, layout, grid_area, children>>

\* ------------------------------------------------------- Python helpers

\* Python index k (negative: from the end) of a list, as a 1-based index.
PyIdx(seq, k) == IF k >= 0 THEN k + 1 ELSE Len(seq) + k + 1

PyGet(seq, k) == seq[PyIdx(seq, k)]

PySet(seq, k, v) == [seq EXCEPT ![PyIdx(seq, k)] = v]

\* del seq[k]
PyDel(seq, k) ==
    LET i == PyIdx(seq, k)
    IN  SubSeq(seq, 1, i - 1) \o SubSeq(seq, i + 1, Len(seq))

\* dict.get(key): the value of the item with that key, else None.
DictGet(d, key) ==
    IF \E i \in 1..Len(d) : d[i][1] = key
    THEN d[CHOOSE i \in 1..Len(d) : d[i][1] = key][2]
    ELSE None

\* Mutant of DictValues: the values in reverse order.
DictValuesReversed(d) == [i \in 1..Len(d) |-> d[Len(d) + 1 - i][2]]

\* tuple(dict.values())
DictValues(d) == [i \in 1..Len(d) |-> d[i][2]]

\* {position: child for position, child in all_children.items() if child is not None}
PresentItems(all_children) ==
    LET Present(item) == item[2] # None
    IN  SelectSeq(all_children, Present)

RECURSIVE JoinStr(_, _)
\* sep.join(seq) on a list of strings.
JoinStr(seq, sep) ==
    IF Len(seq) = 0 THEN ""
    ELSE IF Len(seq) = 1 THEN seq[1]
    ELSE seq[1] \o sep \o JoinStr(Tail(seq), sep)

\* "\n".join('"{}"'.format(" ".join(line)) for line in grid_template_areas)
AreasCss(areas) ==
    JoinStr([r \in 1..Len(areas) |-> "\"" \o JoinStr(areas[r], " ") \o "\""], "\n")

RECURSIVE TagChildren(_, _)
\* for position, child in children.items(): child.layout.grid_area = position
TagChildren(ga, items) ==
    IF Len(items) = 0 THEN ga
    ELSE TagChildren([ga EXCEPT ![items[1][2]] = items[1][1]], Tail(items))

\* ------------------------------------------------------------ AppLayout

AppBaseAreas ==
    << <<"header", "header", "header">>,
       <<"left-sidebar", "center", "right-sidebar">>,
       <<"footer", "footer", "footer">> >>

AppBaseColumns == <<"1fr", "2fr", "1fr">>

AppBaseRows == <<"1fr", "3fr", "1fr">>

\* all_children of AppLayout._update_layout, in the dict's insertion order.
AppAllChildren(s) ==
    << <<"header", s["header"]>>,
       <<"footer", s["footer"]>>,
       <<"left-sidebar", s["left_sidebar"]>>,
       <<"right-sidebar", s["right_sidebar"]>>,
       <<"center", s["center"]>> >>

\* if self.center is None: drop the middle column of every row and of the columns.
AppDropCenter(s, g) ==
    IF s["center"] = None
    THEN [g EXCEPT !.areas   = [r \in 1..Len(g.areas) |-> PyDel(g.areas[r], 1)],
                   !.columns = PyDel(g.columns, 1)]
    ELSE g

\* Mutant of AppMergeLeft: the assignment the wrong way round,
\* areas[1][1] = areas[1][0].
AppMergeLeftSwapped(s, g) ==
    IF s["left_sidebar"] = None
    THEN [g EXCEPT !.areas =
            PySet(g.areas, 1, PySet(PyGet(g.areas, 1), 1, PyGet(PyGet(g.areas, 1), 0)))]
    ELSE g

\* if self.left_sidebar is None: areas[1][0] = areas[1][1]
AppMergeLeft(s, g) ==
    IF s["left_sidebar"] = None
    THEN [g EXCEPT !.areas =
            PySet(g.areas, 1, PySet(PyGet(g.areas, 1), 0, PyGet(PyGet(g.areas, 1), 1)))]
    ELSE g

\* if self.right_sidebar is None: areas[1][-1] = areas[1][-2]
AppMergeRight(s, g) ==
    IF s["right_sidebar"] = None
    THEN [g EXCEPT !.areas =
            PySet(g.areas, 1, PySet(PyGet(g.areas, 1), -1, PyGet(PyGet(g.areas, 1), -2)))]
    ELSE g

\* Mutant of AppMergeMiddle: the special case of an empty middle row left out.
AppMergeMiddleSkipped(s, g) == g

\* if left_sidebar, right_sidebar and center are all None: header over footer.
AppMergeMiddle(s, g) ==
    IF s["left_sidebar"] = None /\ s["right_sidebar"] = None /\ s["center"] = None
    THEN [areas   |-> << <<"header">>, <<"footer">> >>,
          columns |-> <<"1fr">>,
          rows    |-> <<"1fr", "1fr">>]
    ELSE g

\* Mutant of AppDropHeader: the test inverted, the row dropped when the
\* header is present.
AppDropHeaderInverted(s, g) ==
    IF s["header"] # None
    THEN [g EXCEPT !.areas = PyDel(g.areas, 0), !.rows = PyDel(g.rows, 0)]
    ELSE g

\* if self.header is None: drop the first row and its track.
AppDropHeader(s, g) ==
    IF s["header"] = None
    THEN [g EXCEPT !.areas = PyDel(g.areas, 0), !.rows = PyDel(g.rows, 0)]
    ELSE g

\* if self.footer is None: drop the last row and its track.
AppDropFooter(s, g) ==
    IF s["footer"] = None
    THEN [g EXCEPT !.areas = PyDel(g.areas, -1), !.rows = PyDel(g.rows, -1)]
    ELSE g

\* The `if self.merge:` block of AppLayout._update_layout, on the base lists:
\* the statements of the else branch run in the order of the code, each on
\* the lists as the previous one left them.
AppMerge(s, items) ==
    IF Len(items) = 1
    THEN LET position == items[1][1]
         IN  [areas   |-> [r \in 1..3 |-> <<position, position, position>>],
              columns |-> AppBaseColumns,
              rows    |-> AppBaseRows]
    ELSE
      LET g0 == [areas |-> AppBaseAreas, columns |-> AppBaseColumns, rows |-> AppBaseRows]
          g1 == AppDropCenter(s, g0)
          g2 == AppMergeLeft(s, g1)
          g3 == AppMergeRight(s, g2)
          g4 == AppMergeMiddle(s, g3)
          g5 == AppDropHeader(s, g4)
          g6 == AppDropFooter(s, g5)
      IN  g6

\* Mutant of AppGrid: the merge flag ignored.
AppGridAlwaysMerge(s, m, items) == AppMerge(s, items)

\* The lists AppLayout._update_layout holds before it writes them out,
\* for a non-empty children dict.
AppGrid(s, m, items) ==
    IF m THEN AppMerge(s, items)
    ELSE [areas |-> AppBaseAreas, columns |-> AppBaseColumns, rows |-> AppBaseRows]

\* ------------------------------------------------------- TwoByTwoLayout

TwoByTwoBaseAreas ==
    << <<"top-left", "top-right">>,
       <<"bottom-left", "bottom-right">> >>

TwoByTwoColumns == <<"left", "right">>

\* all_children of TwoByTwoLayout._update_layout, in the dict's insertion order.
TwoByTwoAllChildren(s) ==
    << <<"top-left", s["top_left"]>>,
       <<"top-right", s["top_right"]>>,
       <<"bottom-left", s["bottom_left"]>>,
       <<"bottom-right", s["bottom_right"]>> >>

\* Mutant of TwoByTwoColumnStep: a cell whose occupant is absent always
\* merges with the neighbour on the same row.
TwoByTwoColumnStepRowwise(areas, items, i) ==
    LET column      == PyGet(TwoByTwoColumns, i)
        top         == DictGet(items, "top-" \o column)
        bottom      == DictGet(items, "bottom-" \o column)
        i_neighbour == (i + 1) % 2
        a1 == IF top = None
              THEN PySet(areas, 0, PySet(PyGet(areas, 0), i, PyGet(PyGet(areas, 0), i_neighbour)))
              ELSE areas
    IN  IF bottom = None
        THEN PySet(a1, 1, PySet(PyGet(a1, 1), i, PyGet(PyGet(a1, 1), i_neighbour)))
        ELSE a1

\* Mutant of TwoByTwoColumnStep: i_neighbour = i, an empty column copies itself.
TwoByTwoColumnStepSelfNeighbour(areas, items, i) ==
    LET column == PyGet(TwoByTwoColumns, i)
        top    == DictGet(items, "top-" \o column)
        bottom == DictGet(items, "bottom-" \o column)
    IN  IF top = None /\ bottom = None THEN areas
        ELSE IF top = None
        THEN PySet(areas, 0, PySet(PyGet(areas, 0), i, PyGet(PyGet(areas, 1), i)))
        ELSE IF bottom = None
        THEN PySet(areas, 1, PySet(PyGet(areas, 1), i, PyGet(PyGet(areas, 0), i)))
        ELSE areas

\* One iteration of `for i, column in enumerate(columns)`, on the list as the
\* previous iterations left it.
TwoByTwoColumnStep(areas, items, i) ==
    LET column      == PyGet(TwoByTwoColumns, i)
        top         == DictGet(items, "top-" \o column)
        bottom      == DictGet(items, "bottom-" \o column)
        i_neighbour == (i + 1) % 2
    IN  IF top = None /\ bottom = None
        THEN \* merge each cell in this column with the neighbour on the same row
             LET a1 == PySet(areas, 0, PySet(PyGet(areas, 0), i, PyGet(PyGet(areas, 0), i_neighbour)))
             IN  PySet(a1, 1, PySet(PyGet(a1, 1), i, PyGet(PyGet(a1, 1), i_neighbour)))
        ELSE IF top = None
        THEN \* merge with the cell below
             PySet(areas, 0, PySet(PyGet(areas, 0), i, PyGet(PyGet(areas, 1), i)))
        ELSE IF bottom = None
        THEN \* merge with the cell above
             PySet(areas, 1, PySet(PyGet(areas, 1), i, PyGet(PyGet(areas, 0), i)))
        ELSE areas

\* The `if self.merge:` block of TwoByTwoLayout._update_layout.
TwoByTwoMerge(items) ==
    IF Len(items) = 1
    THEN LET position == items[1][1]
         IN  << <<position, position>>, <<position, position>> >>
    ELSE TwoByTwoColumnStep(TwoByTwoColumnStep(TwoByTwoBaseAreas, items, 0), items, 1)

\* grid_template_areas of TwoByTwoLayout._update_layout before it is written
\* out, for a non-empty children dict.
TwoByTwoGrid(m, items) ==
    IF m THEN TwoByTwoMerge(items) ELSE TwoByTwoBaseAreas

\* ------------------------------------------------------- LayoutTemplate

\* Mutant of DelegateToLayout: only the traits tagged style are forwarded.
DelegateStyleOnly(l, name, new) ==
    IF name \in StyleNames THEN [l EXCEPT ![name] = new] ELSE l

\* _delegate_to_layout: setattr(self.layout, change['name'], change['new'])
DelegateToLayout(l, name, new) == [l EXCEPT ![name] = new]

\* self.children = value: the trait is set and, when the value changed,
\* the observer of All traits forwards it to the layout.
SetChildren(st, value) ==
    IF value = st.children THEN st
    ELSE [st EXCEPT !.children = value,
                    !.layout = DelegateToLayout(st.layout, "children", value)]

\* --------------------------------------------------------- _update_layout

\* Mutant of AppUpdateLayout: no early return on an empty children dict.
AppUpdateLayoutNoEarlyReturn(st) ==
    LET items == PresentItems(AppAllChildren(st.slots))
        g  == AppGrid(st.slots, st.merge, items)
        l1 == [st.layout EXCEPT !["grid_template_columns"] = JoinStr(g.columns, " "),
                                !["grid_template_rows"]    = JoinStr(g.rows, " "),
                                !["grid_template_areas"]   = AreasCss(g.areas)]
        s1 == [st EXCEPT !.grid_area = TagChildren(st.grid_area, items),
                         !.layout = l1]
    IN  SetChildren(s1, DictValues(items))

\* AppLayout._update_layout on st = [slots, merge, layout, grid_area, children].
AppUpdateLayout(st) ==
    LET items == PresentItems(AppAllChildren(st.slots))
    IN  IF Len(items) = 0 THEN st
        ELSE
          LET g  == AppGrid(st.slots, st.merge, items)
              l1 == [st.layout EXCEPT !["grid_template_columns"] = JoinStr(g.columns, " "),
                                      !["grid_template_rows"]    = JoinStr(g.rows, " "),
                                      !["grid_template_areas"]   = AreasCss(g.areas)]
              s1 == [st EXCEPT !.grid_area = TagChildren(st.grid_area, items),
                               !.layout = l1]
          IN  SetChildren(s1, DictValues(items))

\* TwoByTwoLayout._update_layout on st = [slots, merge, layout, grid_area, children].
TwoByTwoUpdateLayout(st) ==
    LET items == PresentItems(TwoByTwoAllChildren(st.slots))
    IN  IF Len(items) = 0 THEN st
        ELSE
          LET areas == TwoByTwoGrid(st.merge, items)
              l1 == [st.layout EXCEPT !["grid_template_columns"] = "1fr 1fr",
                                      !["grid_template_rows"]    = "1fr 1fr",
                                      !["grid_template_areas"]   = AreasCss(areas)]
              s1 == [st EXCEPT !.grid_area = TagChildren(st.grid_area, items),
                               !.layout = l1]
          IN  SetChildren(s1, DictValues(items))

\* all_children of the container's class.
AllChildren(c, s) ==
    IF c = "AppLayout" THEN AppAllChildren(s) ELSE TwoByTwoAllChildren(s)

\* _child_changed of the container's class.
ChildChanged(c, st) ==
    IF c = "AppLayout" THEN AppUpdateLayout(st) ELSE TwoByTwoUpdateLayout(st)

\* ---------------------------------------------------------------- machine

\* A container constructed with no arguments: no occupant, merge = True,
\* no style, a fresh Layout, no children.
Init ==
    /\ cls \in Classes
    /\ slots = [n \in SlotNames(cls) |-> None]
    /\ merge = TRUE
    /\ style = [n \in StyleNames |-> None]
    /\ layout = [n \in LayoutNames(cls) |-> None]
    /\ grid_area = [w \in Widgets |-> None]
    /\ children = <<>>

\* container.<name> = v on a position trait, v a Widget or None, v differing
\* from the stored value: _delegate_to_layout and _child_changed both run.
AssignSlot(name, v) ==
    /\ slots[name] # v
    /\ \E st \in {[slots     |-> [slots EXCEPT ![name] = v],
                    merge     |-> merge,
                    layout    |-> DelegateToLayout(layout, name, v),
                    grid_area |-> grid_area,
                    children  |-> children]} :
         \E r \in {ChildChanged(cls, st)} :
           /\ slots' = r.slots
           /\ layout' = r.layout
           /\ grid_area' = r.grid_area
           /\ children' = r.children
    /\ UNCHANGED <<cls, merge, style>>

\* Position assignment over all the widgets.
SetSlot ==
    \E name \in SlotNames(cls), v \in Widgets \cup {None} : AssignSlot(name, v)

\* Position assignment over the widgets of the style specification.
SetSlotStyled ==
    \E name \in SlotNames(cls), v \in StyleWidgets \cup {None} : AssignSlot(name, v)

\* container.merge = b, b differing from the stored value: only
\* _delegate_to_layout runs.
SetMerge ==
    \E b \in BOOLEAN :
        /\ merge # b
        /\ merge' = b
        /\ layout' = DelegateToLayout(layout, "merge", b)
        /\ UNCHANGED <<cls, slots, style, grid_area, children>>

\* container.<name> = v on a style trait, v differing from the stored value:
\* only _delegate_to_layout runs.
SetStyle ==
    \E name \in StyleNames : \E v \in StyleValues(name) \cup {None} :
        /\ style[name] # v
        /\ style' = [style EXCEPT ![name] = v]
        /\ layout' = DelegateToLayout(layout, name, v)
        /\ UNCHANGED <<cls, slots, merge, grid_area, children>>

Next == SetSlot \/ SetMerge

Spec == Init /\ [][Next]_vars

StyleNext == SetSlotStyled \/ SetMerge \/ SetStyle

StyleSpec == Init /\ [][StyleNext]_vars

\* ------------------------------------------------- reading the state back

\* The pieces of string str between the occurrences of the character sep.
\* (P, the set of the indices of sep in str, is bound once.)
SplitStr(str, sep) ==
    CHOOSE pieces \in
        {LET n == Cardinality(P)
             Pos(k) == IF k = 0 THEN 0
                       ELSE IF k > n THEN Len(str) + 1
                       ELSE CHOOSE q \in P : Cardinality({x \in P : x < q}) = k - 1
         IN  [k \in 1..(n + 1) |-> SubSeq(str, Pos(k - 1) + 1, Pos(k) - 1)] :
           P \in {{i \in 1..Len(str) : SubSeq(str, i, i) = sep}}} : TRUE

\* The area names of one quoted line of a grid-template-areas string.
ParseLine(line) == SplitStr(SubSeq(line, 2, Len(line) - 1), " ")

\* The matrix of area names a grid-template-areas string denotes.
ParseAreas(css) ==
    CHOOSE m \in {[r \in 1..Len(lines) |-> ParseLine(lines[r])] :
                    lines \in {SplitStr(css, "\n")}} : TRUE

\* The area matrix, row tracks and column tracks now on the layout.
LayoutAreas == ParseAreas(layout["grid_template_areas"])

LayoutRows == SplitStr(layout["grid_template_rows"], " ")

LayoutColumns == SplitStr(layout["grid_template_columns"], " ")

LayoutGrid == [n \in GridNames |-> layout[n]]

\* The present items of the container, their positions and their occupants.
Present == PresentItems(AllChildren(cls, slots))

PositionsOf(items) == {items[i][1] : i \in 1..Len(items)}

PresentPositions == PositionsOf(Present)

PresentOccupants == [i \in 1..Len(Present) |-> Present[i][2]]

Cells(areas) == {areas[r][c] : r \in 1..Len(areas), c \in 1..Len(areas[1])}

\* A position assignment of class c in which exactly the positions of S are occupied.
SlotsWith(c, S) ==
    CHOOSE s \in
        {[n \in SlotNames(c) |->
            IF \E i \in 1..Len(named) : named[i][2] = n /\ named[i][1] \in S
            THEN Widget(1) ELSE None] :
          named \in {AllChildren(c, [n \in SlotNames(c) |-> n])}} : TRUE

\* No widget occupies two positions (the documented precondition).
DistinctOccupants ==
    \A i, j \in 1..Len(Present) : i # j => Present[i][2] # Present[j][2]

\* Widget w occupies position pos and no other.
OnlyAt(w, pos) ==
    \A i \in 1..Len(Present) : Present[i][2] = w => Present[i][1] = pos

\* <<number of rows, number of columns>> of an area matrix.
Dims(areas) == <<Len(areas), Len(areas[1])>>

\* A step that assigns a position trait, and so runs _update_layout.
Recomputed == slots' # slots

\* A widget that was an occupant before and occupies no position now.
SomeRemoved ==
    \E w \in Widgets : grid_area[w] # None /\ \A n \in SlotNames(cls) : slots[n] # w

\* ------------------------------------------------------------------ claims

\* C1 (as stated): after every assignment to a position trait, an assignment
\* of None included, children is exactly the sequence of the present
\* occupants in position order, no removed occupant remaining in it.
C1_ChildrenArePresentOccupants == children = PresentOccupants

\* C1 (amended): whenever at least one position is occupied, children is
\* exactly the sequence of the present occupants in position order.
C1_ChildrenArePresentOccupantsWhenAny ==
    Len(Present) > 0 => children = PresentOccupants

\* An occupant was removed, two positions stay occupied, and children holds
\* exactly the remaining occupants.
C1_Witness ==
    /\ SomeRemoved
    /\ Len(Present) >= 2
    /\ children = PresentOccupants

\* TwoByTwoLayout with merge, occupied exactly at top-left and bottom-right.
C2_Case ==
    /\ cls = "TwoByTwoLayout"
    /\ merge
    /\ PresentPositions = {"top-left", "bottom-right"}
    /\ DistinctOccupants

\* C2 (as stated): TwoByTwoLayout, merge, occupants at top-left and
\* bottom-right only: the area matrix written by the recomputation is
\* [[top-left, top-left], [bottom-right, bottom-right]].
C2_CrossMerge ==
    [][(Recomputed /\ C2_Case') =>
         LayoutAreas' = << <<"top-left", "top-left">>,
                           <<"bottom-right", "bottom-right">> >>]_vars

\* C2 (amended): in that case the area matrix written is
\* [[top-left, bottom-right], [top-left, bottom-right]]: each column merges
\* vertically.
C2_VerticalMerge ==
    [][(Recomputed /\ C2_Case') =>
         LayoutAreas' = << <<"top-left", "bottom-right">>,
                           <<"top-left", "bottom-right">> >>]_vars

\* The case of C2 with the layout the recomputation wrote for it.
C2_Witness ==
    /\ C2_Case
    /\ layout["grid_template_areas"] = "\"top-left bottom-right\"\n\"top-left bottom-right\""
    /\ Len(children) = 2

\* What AppLayout._update_layout holds as area matrix for the presence set S, merge on.
AppAreasFor(S) ==
    CHOOSE areas \in
        {AppGrid(s, TRUE, items).areas :
            <<s, items>> \in {<<s, PresentItems(AppAllChildren(s))>> :
                                 s \in {SlotsWith("AppLayout", S)}}} : TRUE

\* The area matrix of every non-empty presence set of AppLayout, merge on.
AppAreasTable ==
    [S \in (SUBSET PositionsOf(AppAllChildren([n \in AppSlotNames |-> n]))) \ {{}}
        |-> AppAreasFor(S)]

\* With merge on, no presence subset of at least k positions of the present
\* ones resolves to more rows or more columns than the layout now has.
C3_NoSubsetLarger(k) ==
    \A A \in {LayoutAreas} : \A S \in SUBSET PresentPositions :
        Cardinality(S) >= k =>
            \A AS \in {AppAreasTable[S]} :
                /\ Dims(AS)[1] <= Dims(A)[1]
                /\ Dims(AS)[2] <= Dims(A)[2]

\* C3 (as stated): AppLayout, merge: for non-empty presence subsets S' of S,
\* the template of S' has no more rows and no more columns than that of S.
C3_Monotone ==
    [][(Recomputed /\ cls' = "AppLayout" /\ merge' /\ Len(Present') >= 1
          /\ DistinctOccupants')
         => C3_NoSubsetLarger(1)']_vars

\* C3 (amended): the same for presence subsets S' of S of at least two
\* positions each (a single occupant fills the whole 3x3 template).
C3_MonotoneFromTwo ==
    [][(Recomputed /\ cls' = "AppLayout" /\ merge' /\ Len(Present') >= 2)
         => C3_NoSubsetLarger(2)']_vars

\* header, footer and center are present on a 3x3 template, and the subset
\* {header, footer} resolves to the smaller 2x1 template.
C3_Witness ==
    /\ cls = "AppLayout"
    /\ merge
    /\ PresentPositions = {"header", "footer", "center"}
    /\ Dims(LayoutAreas) = <<3, 3>>
    /\ Dims(AppAreasTable[{"header", "footer"}]) = <<2, 1>>

\* The cells of the right column of a 2x2 area matrix.
RightColumn(areas) == <<areas[1][2], areas[2][2]>>

\* What TwoByTwoLayout._update_layout holds as area matrix for the presence set S, merge on.
TwoByTwoAreasFor(S) ==
    CHOOSE areas \in
        {TwoByTwoGrid(TRUE, items) :
            items \in {PresentItems(TwoByTwoAllChildren(s)) :
                         s \in {SlotsWith("TwoByTwoLayout", S)}}} : TRUE

\* The area matrix of every non-empty presence set of TwoByTwoLayout, merge on.
TwoByTwoAreasTable ==
    [S \in (SUBSET PositionsOf(TwoByTwoAllChildren([n \in TwoByTwoSlotNames |-> n]))) \ {{}}
        |-> TwoByTwoAreasFor(S)]

\* With the right column's presence as it is, every presence pattern of the
\* left column that yields an output yields the right-column cells the
\* layout now has.
C4_RightColumnFixed ==
    \A A \in {LayoutAreas} : \A L \in SUBSET {"top-left", "bottom-left"} :
        \A S \in {(PresentPositions \cap {"top-right", "bottom-right"}) \cup L} :
            S # {} => RightColumn(TwoByTwoAreasTable[S]) = RightColumn(A)

\* C4 (as stated): TwoByTwoLayout, merge: for each presence pattern of the
\* right column, the right-column cells of the output are the same for all
\* presence patterns of the left column.
C4_LeftNeverChangesRight ==
    [][(Recomputed /\ cls' = "TwoByTwoLayout" /\ merge' /\ Len(Present') >= 1)
         => C4_RightColumnFixed']_vars

\* C4 (amended): the same for each presence pattern of the right column with
\* at least one of top-right, bottom-right present.
C4_LeftNeverChangesOccupiedRight ==
    [][(Recomputed /\ cls' = "TwoByTwoLayout" /\ merge'
          /\ PresentPositions' \cap {"top-right", "bottom-right"} # {})
         => C4_RightColumnFixed']_vars

\* Only top-right is present on the right, the left column is full, and the
\* right column of the layout is top-right over top-right.
C4_Witness ==
    /\ cls = "TwoByTwoLayout"
    /\ merge
    /\ PresentPositions = {"top-left", "bottom-left", "top-right"}
    /\ RightColumn(LayoutAreas) = <<"top-right", "top-right">>
    /\ RightColumn(TwoByTwoAreasTable[{"top-right"}]) = <<"top-right", "top-right">>

\* The layout holds the base geometry of AppLayout.
C5_BaseGeometry ==
    /\ LayoutRows = <<"1fr", "3fr", "1fr">>
    /\ LayoutColumns = <<"1fr", "2fr", "1fr">>
    /\ LayoutAreas = << <<"header", "header", "header">>,
                        <<"left-sidebar", "center", "right-sidebar">>,
                        <<"footer", "footer", "footer">> >>

\* C5 (as stated): AppLayout, merge off: for all 2^5 presence subsets the
\* layout after the recomputation holds the base geometry.
C5_BaseForAllSubsets ==
    [][(Recomputed /\ cls' = "AppLayout" /\ ~merge') => C5_BaseGeometry']_vars

\* C5 (amended): the same for the 2^5 - 1 non-empty presence subsets.
C5_BaseForNonEmptySubsets ==
    [][(Recomputed /\ cls' = "AppLayout" /\ ~merge' /\ Len(Present') >= 1)
         => C5_BaseGeometry']_vars

\* Merge is off, only center is present, and the layout holds the base geometry.
C5_Witness ==
    /\ cls = "AppLayout"
    /\ ~merge
    /\ PresentPositions = {"center"}
    /\ children = PresentOccupants
    /\ C5_BaseGeometry

\* C6: in every state (so after any recomputation, both classes, both merge
\* values) every present position names a cell of the area matrix on the
\* layout, and every occupant of exactly one position carries that
\* position's name as its grid_area.
C6_PresentTaggedAndPlaced ==
    \A A \in {LayoutAreas} : \A i \in 1..Len(Present) :
        /\ Present[i][1] \in Cells(A)
        /\ OnlyAt(Present[i][2], Present[i][1]) => grid_area[Present[i][2]] = Present[i][1]

\* Two different widgets at left-sidebar and right-sidebar, merge on: the
\* center column and both outer rows were deleted, both occupants are
\* tagged and placed.
C6_Witness ==
    /\ cls = "AppLayout"
    /\ merge
    /\ DistinctOccupants
    /\ PresentPositions = {"left-sidebar", "right-sidebar"}
    /\ LayoutAreas = << <<"left-sidebar", "right-sidebar">> >>
    /\ \A i \in 1..Len(Present) : grid_area[Present[i][2]] = Present[i][1]

\* C7: a recomputation with every position absent leaves the layout's row
\* tracks, column tracks and area template, every widget's grid_area and
\* the children as they were.
C7_AllAbsentIsNoOp ==
    [][(Recomputed /\ Len(Present') = 0) =>
         /\ LayoutGrid' = LayoutGrid
         /\ grid_area' = grid_area
         /\ children' = children]_vars

\* Every position is absent while the layout, a grid_area and the children
\* of the last non-empty assignment are retained.
C7_Witness ==
    /\ Len(Present) = 0
    /\ Len(children) >= 1
    /\ layout["grid_template_areas"] # None
    /\ \E w \in Widgets : grid_area[w] # None

\* C8: a write of a new value to a style trait or to merge sets the layout's
\* attribute of the same name to that value in the same step and leaves the
\* layout's row tracks, column tracks and area template unchanged.
\* (The merge attribute of the layout is None or a boolean: the two are
\* compared as printed.)
C8_StyleWriteMirrored ==
    [][/\ \A n \in StyleNames :
            style'[n] # style[n] => (layout'[n] = style'[n] /\ LayoutGrid' = LayoutGrid)
       /\ merge' # merge =>
            /\ ToString(layout'["merge"]) = ToString(merge')
            /\ LayoutGrid' = LayoutGrid]_vars

\* Merge was switched off and justify_content written while only center is
\* present: the layout mirrors both values and still holds the merged
\* template of the last recomputation.
C8_Witness ==
    /\ cls = "AppLayout"
    /\ ~merge
    /\ ToString(layout["merge"]) = ToString(FALSE)
    /\ style["justify_content"] = "flex-end"
    /\ layout["justify_content"] = "flex-end"
    /\ PresentPositions = {"center"}
    /\ LayoutAreas = [r \in 1..3 |-> <<"center", "center", "center">>]

\* The cells <<top, bottom>> of column i (0 left, 1 right) of the reference
\* resolver, which reads the base matrix only.
RefColumn(S, i) ==
    LET column == PyGet(TwoByTwoColumns, i)
        top    == ("top-" \o column) \in S
        bottom == ("bottom-" \o column) \in S
        j      == (i + 1) % 2
        B      == TwoByTwoBaseAreas
    IN  IF ~top /\ ~bottom THEN <<PyGet(PyGet(B, 0), j), PyGet(PyGet(B, 1), j)>>
        ELSE IF ~top THEN <<PyGet(PyGet(B, 1), i), PyGet(PyGet(B, 1), i)>>
        ELSE IF ~bottom THEN <<PyGet(PyGet(B, 0), i), PyGet(PyGet(B, 0), i)>>
        ELSE <<PyGet(PyGet(B, 0), i), PyGet(PyGet(B, 1), i)>>

\* The area matrix of the reference resolver for the presence set S.
RefQuadrant(S) ==
    << <<RefColumn(S, 0)[1], RefColumn(S, 1)[1]>>,
       <<RefColumn(S, 0)[2], RefColumn(S, 1)[2]>> >>

\* C9: TwoByTwoLayout, merge, at least two occupants: the matrix written by
\* the in-place column pass equals that of the reference resolver whose
\* columns both read the base matrix.
C9_InPlaceEqualsReference ==
    [][(Recomputed /\ cls' = "TwoByTwoLayout" /\ merge' /\ Len(Present') >= 2)
         => LayoutAreas' = RefQuadrant(PresentPositions')]_vars

\* The right column is empty and the left column full: the right column
\* took the left column's cells, as in the reference resolver.
C9_Witness ==
    /\ cls = "TwoByTwoLayout"
    /\ merge
    /\ DistinctOccupants
    /\ PresentPositions = {"top-left", "bottom-left"}
    /\ LayoutAreas = << <<"top-left", "top-left">>, <<"bottom-left", "bottom-left">> >>
    /\ LayoutAreas = RefQuadrant(PresentPositions)

\* C10: both classes, merge, a non-empty presence set: every cell of the
\* area matrix written by the recomputation names a present position.
C10_CellsArePresent ==
    [][(Recomputed /\ merge' /\ Len(Present') >= 1)
         => \A A \in {LayoutAreas'} : Cells(A) \subseteq PresentPositions']_vars

\* header and right-sidebar only, merge on: the matrix is header over
\* right-sidebar, two columns wide, and names no absent position.
C10_Witness ==
    /\ cls = "AppLayout"
    /\ merge
    /\ PresentPositions = {"header", "right-sidebar"}
    /\ LayoutAreas = << <<"header", "header">>, <<"right-sidebar", "right-sidebar">> >>
    /\ Cells(LayoutAreas) \subseteq PresentPositions

====
